---- MODULE Spec2Model ----
(***************************************************************************)
(* Model of netcdf2html/api/layers.py: the layer variants (LayerBase,      *)
(* LayerSingleBand, LayerRGB, LayerMask, LayerWMS), their check / get_data *)
(* / build operations, and the per-layer remote tile cache of LayerWMS.    *)
(*                                                                         *)
(* Arrays are records [dims, shape, data]; data is a function from index   *)
(* tuples (1-based here, 0-based in the source) to values.  A dataset is a *)
(* function from variable names to arrays; `name in ds` is                 *)
(* name \in DOMAIN ds.  Output paths are absolute paths in one directory,  *)
(* named by small integers.                                                *)
(***************************************************************************)
EXTENDS Integers, Sequences, FiniteSets, TLC

VARIABLES
    binding,    \* x_coordinate, y_coordinate, time_coordinate of the layers
    scale,      \* LayerWMS.scale
    cache,      \* LayerWMS.cache : url -> [path, body]
    failed,     \* LayerWMS.failed : set of urls
    fs,         \* the output directory: path -> directory entry
    everFailed, \* history: urls for which some fetch did not succeed
    lastBuild,  \* history: what the latest LayerWMS.build call did
    flags,      \* per variant: [flipud, fliplr]
    cur,        \* the dataset the caller is working on
    checked,    \* history: variants whose check(cur) returned no error
    out,        \* history: per variant, the grid its latest build extracted
    lastCheck,  \* history: what the latest check call did
    xin,        \* extractor input: the dataset get_data is applied to
    xflags,     \* extractor input: the flags of the layer
    xout        \* extractor output: the result of get_data

vars == <<binding, scale, cache, failed, fs, everFailed, lastBuild,
          flags, cur, checked, out, lastCheck, xin, xflags, xout>>

tileVars == <<scale, cache, failed, fs, everFailed, lastBuild>>
layerVars == <<flags, cur, checked, out, lastCheck>>
extractVars == <<xin, xflags, xout>>

(***************************************************************************)
(* Bounds                                                                  *)
(***************************************************************************)
MaxLen == 3        \* coordinate lengths are 1..MaxLen
MaxPaths == 2      \* output paths are 1..MaxPaths
MaxBodies == 2     \* distinct response bodies a server may send
MaxScale == 2      \* LayerWMS.scale is 1..MaxScale

Paths == 1..MaxPaths
Bodies == 1..MaxBodies

Abs(a) == IF a < 0 THEN -a ELSE a

(***************************************************************************)
(* Arrays and datasets                                                     *)
(***************************************************************************)
Indices(shape) ==
    { idx \in [1..Len(shape) -> 1..MaxLen] :
        \A k \in 1..Len(shape) : idx[k] <= shape[k] }

\* a 1-dimensional coordinate of n values starting at x0, rising or falling
Coord(name, n, x0, desc) ==
    [dims |-> <<name>>, shape |-> <<n>>,
     data |-> [idx \in Indices(<<n>>) |->
                 IF desc THEN x0 + (n - idx[1]) ELSE x0 + (idx[1] - 1)]]

\* a 2-dimensional auxiliary coordinate over (y, x)
Coord2(ny, nx) ==
    [dims |-> <<"y", "x">>, shape |-> <<ny, nx>>,
     data |-> [idx \in Indices(<<ny, nx>>) |-> 0]]

\* a data variable; every cell holds its own native index, so that a
\* transpose or a flip of the grid is visible in the values
Band(dims, shape) ==
    [dims |-> dims, shape |-> shape,
     data |-> [idx \in Indices(shape) |-> idx]]

Restrict(f, S) == [n \in S |-> f[n]]

(***************************************************************************)
(* The datasets the caller may pass.  A dataset is described by a small    *)
(* record and built by DatasetOf:                                          *)
(*   kind "rect": 1-dimensional lon(lon) and lat(lat)                      *)
(*   kind "curv": 2-dimensional lon(y,x), lat(y,x), 1-dimensional x, y     *)
(*   kind "bare": 1-dimensional x and y only                               *)
(* and, when hasBand, a data variable "sst" over the Y and X dimensions in *)
(* either order, possibly with a leading size-1 dimension "band" or a      *)
(* leading dimension "time" of size 2.                                     *)
(***************************************************************************)
XName(id) == IF id.kind = "rect" THEN "lon" ELSE "x"
YName(id) == IF id.kind = "rect" THEN "lat" ELSE "y"

BandDims(id) ==
    LET core == IF id.order = "yx" THEN <<YName(id), XName(id)>>
                                   ELSE <<XName(id), YName(id)>>
    IN  CASE id.extra = "none" -> core
          [] id.extra = "one"  -> <<"band">> \o core
          [] id.extra = "time" -> <<"time">> \o core

BandShape(id) ==
    LET core == IF id.order = "yx" THEN <<id.ny, id.nx>> ELSE <<id.nx, id.ny>>
    IN  CASE id.extra = "none" -> core
          [] id.extra = "one"  -> <<1>> \o core
          [] id.extra = "time" -> <<2>> \o core

MakeDataset(id) ==
    LET all == [lon  |-> IF id.kind = "rect"
                         THEN Coord("lon", id.nx, id.x0, id.xdesc)
                         ELSE Coord2(id.ny, id.nx),
                lat  |-> IF id.kind = "rect"
                         THEN Coord("lat", id.ny, 0, id.ydesc)
                         ELSE Coord2(id.ny, id.nx),
                x    |-> Coord("x", id.nx, id.x0, id.xdesc),
                y    |-> Coord("y", id.ny, 0, id.ydesc),
                time |-> Coord("time", 2, 0, FALSE),
                sst  |-> Band(BandDims(id), BandShape(id))]
        names == (CASE id.kind = "rect" -> {"lon", "lat"}
                    [] id.kind = "curv" -> {"lon", "lat", "x", "y"}
                    [] id.kind = "bare" -> {"x", "y"})
                 \cup (IF id.hasTime THEN {"time"} ELSE {})
                 \cup (IF id.hasBand THEN {"sst"} ELSE {})
    IN  Restrict(all, names)

DsId(kind, nx, ny, x0, xdesc, ydesc, order, extra, hasTime, hasBand) ==
    [kind |-> kind, nx |-> nx, ny |-> ny, x0 |-> x0, xdesc |-> xdesc,
     ydesc |-> ydesc, order |-> order, extra |-> extra,
     hasTime |-> hasTime, hasBand |-> hasBand]

\* datasets of the remote tile runs: Y falls, X rises, nx varies
TileDatasets ==
    { DsId(kind, nx, 2, 0, FALSE, TRUE, "yx", "none", FALSE, FALSE) :
        kind \in {"rect", "curv", "bare"}, nx \in 2..MaxLen }

\* datasets of the layer runs: 2 columns, MaxLen rows
LayerDatasets ==
    { DsId("rect", 2, MaxLen, 0, xdesc, ydesc, order, "none", FALSE, TRUE) :
        xdesc \in BOOLEAN, ydesc \in BOOLEAN, order \in {"yx", "xy"} }
    \cup { DsId("rect", 2, MaxLen, 0, xdesc, FALSE, "yx", "none", FALSE, FALSE) :
             xdesc \in BOOLEAN }
    \cup { DsId("curv", 2, MaxLen, 0, FALSE, FALSE, "yx", "none", FALSE, TRUE) }

\* datasets of the extractor runs
ExtractDatasets ==
    { DsId("rect", nx, ny, 0, FALSE, TRUE, order, extra, FALSE, TRUE) :
        nx \in 1..MaxLen, ny \in 1..MaxLen, order \in {"yx", "xy"},
        extra \in {"none", "one", "time"} }

\* every dataset, built once
Datasets ==
    [id \in TileDatasets \cup LayerDatasets \cup ExtractDatasets |-> MakeDataset(id)]

DatasetOf(id) == Datasets[id]

(***************************************************************************)
(* LayerBase.bind: the coordinate names.  bound = FALSE is a layer that    *)
(* was constructed and never bound: it has no time_coordinate attribute.   *)
(***************************************************************************)
Unbound == [bound |-> FALSE, x |-> "", y |-> "", time |-> ""]

bind(x_coordinate, y_coordinate, time_coordinate) ==
    [bound |-> TRUE, x |-> x_coordinate, y |-> y_coordinate,
     time |-> time_coordinate]

(***************************************************************************)
(* LayerBase.check.  The result is [raised, err, flipud, fliplr]: raised   *)
(* when the call ends in an exception, err the returned string ("" for     *)
(* the None of a successful check), and the flags after the call.          *)
(***************************************************************************)
CheckResult(raised, err, f) ==
    [raised |-> raised, err |-> err, flipud |-> f.flipud, fliplr |-> f.fliplr]

FirstMissing(b, D) ==
    LET names == <<b.x, b.y, b.time>>
        bad == { i \in 1..3 : names[i] # "" /\ names[i] \notin DOMAIN D }
    IN  IF bad = {} THEN ""
        ELSE names[CHOOSE i \in bad : \A j \in bad : i <= j]

SetFlags(f, xc, yc) ==
    LET x0 == xc.data[<<1>>]
        xl == xc.data[<<xc.shape[1]>>]
        y0 == yc.data[<<1>>]
        yl == yc.data[<<yc.shape[1]>>]
    IN  [flipud |-> IF y0 < yl THEN TRUE ELSE f.flipud,
         fliplr |-> IF x0 > xl THEN TRUE ELSE f.fliplr]

\* line 102-103 alone: the horizontal flag
SetFlagX(f, xc) ==
    [f EXCEPT !.fliplr = IF xc.data[<<1>>] > xc.data[<<xc.shape[1]>>]
                         THEN TRUE ELSE f.fliplr]

\* LayerBase_check with flipud switched on before the coordinates' shapes
\* are validated
LayerBase_check_FlagsFirst(b, f, D) ==
    IF ~b.bound
    THEN CheckResult(TRUE, "AttributeError", f)
    ELSE IF FirstMissing(b, D) # ""
    THEN CheckResult(FALSE, "No variable " \o FirstMissing(b, D), f)
    ELSE IF b.x \notin DOMAIN D \/ b.y \notin DOMAIN D
    THEN CheckResult(TRUE, "KeyError", f)
    ELSE LET xc == D[b.x]
             yc == D[b.y]
             g == [flipud |-> TRUE, fliplr |-> f.fliplr]
         IN  IF Len(xc.shape) # 1
             THEN CheckResult(FALSE, "x_coordinate must be 1-dimensional", g)
             ELSE IF Len(yc.shape) # 1
             THEN CheckResult(FALSE, "y_coordinate must be 1-dimensional", g)
             ELSE IF xc.shape[1] = 0
             THEN CheckResult(TRUE, "IndexError", f)
             ELSE IF yc.shape[1] = 0
             THEN CheckResult(TRUE, "IndexError", SetFlagX(f, xc))
             ELSE CheckResult(FALSE, "", SetFlags(f, xc, yc))

LayerBase_check(b, f, D) ==
    IF ~b.bound
    THEN CheckResult(TRUE, "AttributeError", f)       \* self.time_coordinate
    ELSE IF FirstMissing(b, D) # ""
    THEN CheckResult(FALSE, "No variable " \o FirstMissing(b, D), f)
    ELSE IF b.x \notin DOMAIN D \/ b.y \notin DOMAIN D
    THEN CheckResult(TRUE, "KeyError", f)             \* ds[""]
    ELSE LET xc == D[b.x]
             yc == D[b.y]
         IN  IF Len(xc.shape) # 1
             THEN CheckResult(FALSE, "x_coordinate must be 1-dimensional", f)
             ELSE IF Len(yc.shape) # 1
             THEN CheckResult(FALSE, "y_coordinate must be 1-dimensional", f)
             ELSE IF xc.shape[1] = 0
             THEN CheckResult(TRUE, "IndexError", f)  \* xc.data[0]
             ELSE IF yc.shape[1] = 0                  \* yc.data[0]
             THEN CheckResult(TRUE, "IndexError", SetFlagX(f, xc))
             ELSE CheckResult(FALSE, "", SetFlags(f, xc, yc))

\* LayerSingleBand.check, LayerRGB.check: the base check, then the bands
BandCheck(bands, r, D) ==
    LET bad == { i \in 1..Len(bands) : bands[i] \notin DOMAIN D }
    IN  IF r.raised \/ r.err # "" THEN r
        ELSE IF bad = {} THEN r
        ELSE [r EXCEPT !.err = "No variable " \o
                 bands[CHOOSE i \in bad : \A j \in bad : i <= j]]

LayerSingleBand_check(b, f, D) == BandCheck(<<"sst">>, LayerBase_check(b, f, D), D)

LayerRGB_check(b, f, D) ==
    BandCheck(<<"sst", "sst", "sst">>, LayerBase_check(b, f, D), D)

\* LayerMask.check: the band only
LayerMask_check(b, f, D) ==
    IF "sst" \notin DOMAIN D THEN CheckResult(FALSE, "No variable sst", f)
    ELSE CheckResult(FALSE, "", f)

Variants == {"single", "rgb", "mask", "wms"}

check(v, b, f, D) ==
    CASE v = "single" -> LayerSingleBand_check(b, f, D)
      [] v = "rgb"    -> LayerRGB_check(b, f, D)
      [] v = "mask"   -> LayerMask_check(b, f, D)
      [] v = "wms"    -> LayerBase_check(b, f, D)


(***************************************************************************)
(* LayerBase.get_data.  A layer is [flipud, fliplr, selectors]; selectors  *)
(* is a function from dimension names to (1-based) indices.  The result is *)
(* [raised, grid]; grid is a sequence of rows.                             *)
(***************************************************************************)
NoSelectors == [d \in {} |-> 1]

Keep(da, drop) ==       \* the positions of da's dimensions that stay
    SelectSeq([i \in 1..Len(da.dims) |-> i], LAMBDA i : ~drop[i])

\* the array with the dimensions marked in drop fixed at the index at[i]
Reduce(da, drop, at) ==
    LET kept == Keep(da, drop)
        newshape == [k \in 1..Len(kept) |-> da.shape[kept[k]]]
        pos(i) == CHOOSE k \in 1..Len(kept) : kept[k] = i
    IN  [dims  |-> [k \in 1..Len(kept) |-> da.dims[kept[k]]],
         shape |-> newshape,
         data  |-> [idx \in Indices(newshape) |->
                      da.data[[i \in 1..Len(da.dims) |->
                                 IF drop[i] THEN at[i] ELSE idx[pos(i)]]]]]

Range(s) == { s[i] : i \in 1..Len(s) }

\* da.isel(**selectors): raises for a dimension da does not have, or an
\* index outside it
IselRaises(da, sel) ==
    \E d \in DOMAIN sel :
        \/ d \notin Range(da.dims)
        \/ \E i \in 1..Len(da.dims) : da.dims[i] = d /\ sel[d] > da.shape[i]

isel(da, sel) ==
    Reduce(da, [i \in 1..Len(da.dims) |-> da.dims[i] \in DOMAIN sel],
               [i \in 1..Len(da.dims) |->
                  IF da.dims[i] \in DOMAIN sel THEN sel[da.dims[i]] ELSE 1])

\* da.squeeze(): every dimension of size 1 is dropped
squeeze(da) ==
    Reduce(da, [i \in 1..Len(da.dims) |-> da.shape[i] = 1],
               [i \in 1..Len(da.dims) |-> 1])

index(dims, name) == CHOOSE i \in 1..Len(dims) : dims[i] = name

Grid(da) ==             \* the data of a 2-dimensional array, as rows
    [i \in 1..da.shape[1] |-> [j \in 1..da.shape[2] |-> da.data[<<i, j>>]]]

transpose(g) ==
    IF Len(g) = 0 THEN g
    ELSE [j \in 1..Len(g[1]) |-> [i \in 1..Len(g) |-> g[i][j]]]

Reverse(s) == [i \in 1..Len(s) |-> s[Len(s) + 1 - i]]
flipud(g) == Reverse(g)
fliplr(g) == [i \in 1..Len(g) |-> Reverse(g[i])]

Raised == [raised |-> TRUE, grid |-> <<>>]

\* Oriented with the transpose test the wrong way round
Oriented_TransposeWrongWay(layer, b, da) ==
    LET x_index == index(da.dims, b.x)
        y_index == index(da.dims, b.y)
        arr0 == Grid(da)
        arr1 == IF y_index < x_index THEN transpose(arr0) ELSE arr0
        arr2 == IF layer.flipud THEN flipud(arr1) ELSE arr1
        arr3 == IF layer.fliplr THEN fliplr(arr2) ELSE arr2
    IN  [raised |-> FALSE, grid |-> arr3]

Oriented(layer, b, da) ==
    LET x_index == index(da.dims, b.x)
        y_index == index(da.dims, b.y)
        arr0 == Grid(da)
        arr1 == IF y_index > x_index THEN transpose(arr0) ELSE arr0
        arr2 == IF layer.flipud THEN flipud(arr1) ELSE arr1
        arr3 == IF layer.fliplr THEN fliplr(arr2) ELSE arr2
    IN  [raised |-> FALSE, grid |-> arr3]

get_data(layer, b, da0) ==
    IF IselRaises(da0, layer.selectors) THEN Raised
    ELSE LET da == squeeze(isel(da0, layer.selectors))
         IN  IF Len(da.dims) # 2 THEN Raised           \* "Data is not 2D"
             ELSE IF b.x \notin Range(da.dims) \/ b.y \notin Range(da.dims)
             THEN Raised                               \* da.dims.index
             ELSE Oriented(layer, b, da)


(***************************************************************************)
(* The output directory.  An entry is absent, a regular file holding a     *)
(* body, or a symbolic link to a path.                                     *)
(***************************************************************************)
NoEntry == [kind |-> "none", v |-> 0]
File(body) == [kind |-> "file", v |-> body]
Link(target) == [kind |-> "link", v |-> target]

RECURSIVE Follow(_, _, _)
\* the path that p names after following links; 0 for a loop (ELOOP)
Follow(fsys, p, fuel) ==
    IF fsys[p].kind # "link" THEN p
    ELSE IF fuel = 0 THEN 0
    ELSE Follow(fsys, fsys[p].v, fuel - 1)

Resolve(fsys, p) == Follow(fsys, p, MaxPaths)

\* os.path.exists: follows links; FALSE for a broken link
exists(fsys, p) ==
    Resolve(fsys, p) # 0 /\ fsys[Resolve(fsys, p)].kind = "file"

lexists(fsys, p) == fsys[p].kind # "none"

\* the bytes read through p, 0 when there are none
Content(fsys, p) == IF exists(fsys, p) THEN fsys[Resolve(fsys, p)].v ELSE 0

remove(fsys, p) == [fsys EXCEPT ![p] = NoEntry]

(***************************************************************************)
(* get_image_dimensions: [raised, width, height].  It reads the variables  *)
(* named lat and lon, whatever the layer is bound to.                      *)
(***************************************************************************)
get_image_dimensions(D) ==
    IF "lat" \notin DOMAIN D THEN [raised |-> TRUE, width |-> 0, height |-> 0]
    ELSE IF Len(D["lat"].shape) \notin {1, 2}
    THEN [raised |-> TRUE, width |-> 0, height |-> 0]
    ELSE IF "lon" \notin DOMAIN D \/ Len(D["lon"].shape) < 2   \* ds.lon.shape[1]
    THEN [raised |-> TRUE, width |-> 0, height |-> 0]
    ELSE [raised |-> FALSE, width |-> D["lon"].shape[2],
          height |-> D["lat"].shape[1]]

\* float(xc[0]), float(xc[1]) need a 1-dimensional coordinate of two values
\* or more (the rows of the 2-dimensional coordinates here hold two or more)
CoordRaises(D, name) ==
    \/ name \notin DOMAIN D
    \/ Len(D[name].shape) # 1
    \/ D[name].shape[1] < 2

Values(c) == { c.data[idx] : idx \in DOMAIN c.data }
MinOf(S) == CHOOSE m \in S : \A n \in S : m <= n
MaxOf(S) == CHOOSE m \in S : \A n \in S : m >= n

\* the bounding values, doubled so that half a spacing is an integer
Lo2(c) == 2 * MinOf(Values(c)) - Abs(c.data[<<1>>] - c.data[<<2>>])
Hi2(c) == 2 * MaxOf(Values(c)) + Abs(c.data[<<1>>] - c.data[<<2>>])

\* wms_url with {WIDTH} {HEIGHT} {YMIN} {YMAX} {XMIN} {XMAX} replaced: two
\* urls are the same string exactly when the six values are the same
Url(width, height, xc, yc) ==
    <<width, height, Lo2(yc), Hi2(yc), Lo2(xc), Hi2(xc)>>

NoUrl == <<>>

(***************************************************************************)
(* LayerWMS.build(ds, path).  resp is what requests.get would do for this  *)
(* call: answer 200 with a body, answer another status, or raise.  The     *)
(* result holds the state the call leaves and what it did.                 *)
(***************************************************************************)
Responses ==
    { [kind |-> "ok", body |-> b] : b \in Bodies }
        \cup { [kind |-> "status", body |-> 0], [kind |-> "exception", body |-> 0] }

Put(f, k, v) == [u \in DOMAIN f \cup {k} |-> IF u = k THEN v ELSE f[u]]

BuildResult(fs1, c, fl, raised, stage, url, dims, fetched) ==
    [fs |-> fs1, cache |-> c, failed |-> fl, raised |-> raised, stage |-> stage,
     url |-> url, width |-> dims.width, height |-> dims.height,
     fetched |-> fetched]

LayerWMS_build(b, sc, c, fl, fsys, D, path, resp) ==
    LET fs1  == IF exists(fsys, path) THEN remove(fsys, path) ELSE fsys
        d0   == get_image_dimensions(D)
        dims == [d0 EXCEPT !.width = d0.width * sc, !.height = d0.height * sc]
    IN  IF d0.raised
        THEN BuildResult(fs1, c, fl, TRUE, "dimensions", NoUrl, dims, FALSE)
        ELSE IF CoordRaises(D, b.x) \/ CoordRaises(D, b.y)
        THEN BuildResult(fs1, c, fl, TRUE, "coordinates", NoUrl, dims, FALSE)
        ELSE LET url == Url(dims.width, dims.height, D[b.x], D[b.y])
             IN  IF url \in DOMAIN c
                 THEN IF lexists(fs1, path)             \* os.symlink: FileExistsError
                      THEN BuildResult(fs1, c, fl, TRUE, "link", url, dims, FALSE)
                      ELSE BuildResult([fs1 EXCEPT ![path] = Link(c[url].path)],
                                       c, fl, FALSE, "link", url, dims, FALSE)
                 ELSE IF url \in fl
                 THEN BuildResult(fs1, c, fl, FALSE, "skip", url, dims, FALSE)
                 ELSE IF resp.kind = "exception"        \* requests.get raises
                 THEN BuildResult(fs1, c, fl, TRUE, "fetch", url, dims, TRUE)
                 ELSE IF resp.kind = "status"
                 THEN BuildResult(fs1, c, fl \cup {url}, FALSE, "fetch", url, dims, TRUE)
                 ELSE IF Resolve(fs1, path) = 0         \* open(path, 'wb'): ELOOP
                 THEN BuildResult(fs1, c, fl, TRUE, "fetch", url, dims, TRUE)
                 ELSE BuildResult(
                        [fs1 EXCEPT ![Resolve(fs1, path)] = File(resp.body)],
                        Put(c, url, [path |-> path, body |-> resp.body]),
                        fl, FALSE, "fetch", url, dims, TRUE)


(***************************************************************************)
(* State machine                                                           *)
(***************************************************************************)
NoFlags == [flipud |-> FALSE, fliplr |-> FALSE]
EmptyCache == [u \in {} |-> [path |-> 0, body |-> 0]]
EmptyDir == [p \in Paths |-> NoEntry]

NoBuild ==
    [called |-> FALSE, ds |-> DsId("bare", 2, 2, 0, FALSE, FALSE, "yx", "none", FALSE, FALSE),
     path |-> 0, raised |-> FALSE, stage |-> "", url |-> NoUrl, width |-> 0,
     height |-> 0, fetched |-> FALSE, resp |-> "", hit |-> FALSE,
     priorFailed |-> FALSE]

NoCheck == [called |-> FALSE, variant |-> "", raised |-> FALSE, err |-> "",
            before |-> NoFlags]

NoOut == [built |-> FALSE, raised |-> FALSE, grid |-> <<>>]

ExtractLayers ==
    { [flipud |-> u, fliplr |-> l, selectors |-> sel] :
        u \in BOOLEAN, l \in BOOLEAN,
        sel \in {NoSelectors} \cup { [d \in {"time"} |-> i] : i \in 1..2 } }

Bindings ==
    { bind("lon", "lat", ""), bind("lon", "lat", "time"),
      bind("x", "y", ""), bind("", "", "") }

\* LayerFactory.create ends with created_layer.bind(...)
Bind(b) ==
    /\ ~binding.bound
    /\ binding' = b
    /\ UNCHANGED <<tileVars, layerVars, extractVars>>

\* the caller turns to another dataset
Open(id) ==
    /\ cur' = id
    /\ checked' = {}
    /\ out' = [v \in Variants |-> NoOut]
    /\ lastCheck' = NoCheck
    /\ UNCHANGED <<binding, flags, tileVars, extractVars>>

\* layer.check(ds) on the layer of variant v
Check(v) ==
    \E r \in {check(v, binding, flags[v], DatasetOf(cur))} :
        /\ flags' = [flags EXCEPT ![v] = [flipud |-> r.flipud, fliplr |-> r.fliplr]]
        /\ checked' = IF ~r.raised /\ r.err = "" THEN checked \cup {v}
                      ELSE checked \ {v}
        /\ out' = [out EXCEPT ![v] = NoOut]
        /\ lastCheck' = [called |-> TRUE, variant |-> v, raised |-> r.raised,
                         err |-> r.err, before |-> flags[v]]
        /\ UNCHANGED <<binding, cur, tileVars, extractVars>>

\* LayerSingleBand.build, LayerRGB.build, LayerMask.build: the grid that
\* get_data hands to the encoder (ds[band] raises KeyError without the band)
BuildLayer(v) ==
    LET D == DatasetOf(cur)
        layer == [flipud |-> flags[v].flipud, fliplr |-> flags[v].fliplr,
                  selectors |-> NoSelectors]
    IN  /\ v \in {"single", "rgb", "mask"}
        /\ \E r \in {IF "sst" \notin DOMAIN D THEN Raised
                     ELSE get_data(layer, binding, D["sst"])} :
             out' = [out EXCEPT ![v] = [built |-> TRUE, raised |-> r.raised,
                                      grid |-> r.grid]]
        /\ UNCHANGED <<binding, flags, cur, checked, lastCheck, tileVars, extractVars>>

\* LayerWMS.build(ds, path)
BuildTile(id, path, resp) ==
    \E r \in {LayerWMS_build(binding, scale, cache, failed, fs,
                              DatasetOf(id), path, resp)} :
        /\ fs' = r.fs
        /\ cache' = r.cache
        /\ failed' = r.failed
        /\ everFailed' = IF r.fetched /\ resp.kind # "ok"
                         THEN everFailed \cup {r.url} ELSE everFailed
        /\ lastBuild' = [called |-> TRUE, ds |-> id, path |-> path,
                         raised |-> r.raised, stage |-> r.stage, url |-> r.url,
                         width |-> r.width, height |-> r.height,
                         fetched |-> r.fetched,
                         resp |-> IF r.fetched THEN resp.kind ELSE "",
                         hit |-> r.url \in DOMAIN cache,
                         priorFailed |-> r.url \in everFailed]
        /\ UNCHANGED <<binding, scale, layerVars, extractVars>>

\* get_data applied to the extractor's input
Extract ==
    /\ ~xout.built
    /\ \E r \in {get_data(xflags, binding, DatasetOf(xin)["sst"])} :
           xout' = [built |-> TRUE, raised |-> r.raised, grid |-> r.grid]
    /\ UNCHANGED <<binding, xin, xflags, tileVars, layerVars>>

\* the next input of the extractor
Input(id, layer) ==
    /\ xout.built
    /\ xin' = id
    /\ xflags' = layer
    /\ xout' = NoOut
    /\ UNCHANGED <<binding, tileVars, layerVars>>

IdleTile ==
    /\ scale = 1 /\ cache = EmptyCache /\ failed = {} /\ fs = EmptyDir
    /\ everFailed = {} /\ lastBuild = NoBuild
IdleLayer ==
    /\ flags = [v \in Variants |-> NoFlags] /\ checked = {}
    /\ out = [v \in Variants |-> NoOut] /\ lastCheck = NoCheck
IdleExtract ==
    /\ xin = CHOOSE id \in ExtractDatasets : TRUE
    /\ xflags = CHOOSE l \in ExtractLayers : TRUE
    /\ xout = NoOut

\* one LayerWMS layer, built for any datasets and paths
InitTile ==
    /\ binding \in {bind("x", "y", ""), bind("lon", "lat", "")}
    /\ scale \in 1..MaxScale
    /\ cache = EmptyCache /\ failed = {} /\ fs = EmptyDir
    /\ everFailed = {} /\ lastBuild = NoBuild
    /\ IdleLayer /\ cur = CHOOSE id \in LayerDatasets : TRUE
    /\ IdleExtract

NextTile == \E id \in TileDatasets, path \in Paths, resp \in Responses :
                BuildTile(id, path, resp)

SpecTile == InitTile /\ [][NextTile]_vars

\* one layer of each variant, constructed, then bound, checked and built
InitLayer ==
    /\ binding = Unbound
    /\ IdleTile
    /\ IdleLayer /\ cur \in LayerDatasets
    /\ IdleExtract

NextLayer ==
    \/ \E b \in Bindings : Bind(b)
    \/ \E id \in LayerDatasets : Open(id)
    \/ \E v \in Variants : Check(v)
    \/ \E v \in Variants : BuildLayer(v)

SpecLayer == InitLayer /\ [][NextLayer]_vars

\* get_data on any input
InitExtract ==
    /\ binding = bind("lon", "lat", "")
    /\ IdleTile
    /\ IdleLayer /\ cur = CHOOSE id \in LayerDatasets : TRUE
    /\ xin \in ExtractDatasets
    /\ xflags \in ExtractLayers
    /\ xout = NoOut

NextExtract ==
    \/ Extract
    \/ \E id \in ExtractDatasets, layer \in ExtractLayers : Input(id, layer)

SpecExtract == InitExtract /\ [][NextExtract]_vars

Init == InitTile \/ InitLayer \/ InitExtract
Next == NextTile \/ NextLayer \/ NextExtract
Spec == Init /\ [][Next]_vars


(***************************************************************************)
(* Remote tile cache                                                       *)
(***************************************************************************)

\* C1: a build whose url is already in the success cache (an earlier build
\* fetched it successfully) issues no fetch, and after it the output path
\* exists and holds exactly the bytes that the earlier build downloaded;
\* the output path may be the one the earlier build wrote.
C1_SecondBuildSharesDownload ==
    (lastBuild.called /\ lastBuild.hit) =>
        /\ ~lastBuild.fetched
        /\ exists(fs, lastBuild.path)
        /\ Content(fs, lastBuild.path) = cache[lastBuild.url].body

\* C2: once a fetch of a url has failed (by a status or without a
\* response), a later build of that url issues no fetch, raises nothing and
\* leaves no file at its output path.
C2_FailedUrlNeverRetried ==
    (lastBuild.called /\ lastBuild.priorFailed) =>
        /\ ~lastBuild.fetched
        /\ ~lastBuild.raised
        /\ ~exists(fs, lastBuild.path)

\* C3: every failed fetch, by a non-success status or without a response,
\* is swallowed: build returns normally, the url is in the failure set and
\* no output file is created.
C3_FetchFailureSwallowed ==
    (lastBuild.called /\ lastBuild.fetched /\ lastBuild.resp \in {"status", "exception"}) =>
        /\ ~lastBuild.raised
        /\ lastBuild.url \in failed
        /\ ~exists(fs, lastBuild.path)

\* check(ds) of the LayerWMS layer succeeds and both bound coordinates hold
\* two values or more
TileChecked(id) ==
    LET r == LayerBase_check(binding, NoFlags, DatasetOf(id))
    IN  /\ ~r.raised /\ r.err = ""
        /\ DatasetOf(id)[binding.x].shape[1] >= 2
        /\ DatasetOf(id)[binding.y].shape[1] >= 2

\* C7: for a dataset on which check succeeded, build does not raise while
\* it computes the request, and the requested size is the length of the
\* bound X coordinate times scale by the length of the bound Y coordinate
\* times scale.
C7_ImageSizeFromBoundCoordinates ==
    (lastBuild.called /\ TileChecked(lastBuild.ds)) =>
        /\ lastBuild.stage \notin {"dimensions", "coordinates"}
        /\ lastBuild.width = DatasetOf(lastBuild.ds)[binding.x].shape[1] * scale
        /\ lastBuild.height = DatasetOf(lastBuild.ds)[binding.y].shape[1] * scale

\* C10: after every build that returns, every url of the success cache maps
\* to a path where a file exists and holds the response downloaded for that
\* url, and no url is both in the success cache and in the failure set.
C10_CacheEntriesValid ==
    ~lastBuild.raised =>
        /\ \A u \in DOMAIN cache :
              /\ exists(fs, cache[u].path)
              /\ Content(fs, cache[u].path) = cache[u].body
        /\ DOMAIN cache \cap failed = {}


(***************************************************************************)
(* Validation and orientation                                              *)
(***************************************************************************)
CurX == DatasetOf(cur)[binding.x]
CurY == DatasetOf(cur)[binding.y]

\* C4: check never raises, whatever names the layer is bound to (empty
\* names and names the dataset lacks included); a variant that validates
\* the coordinates answers with the first missing one in the order X, Y,
\* time.
C4_CheckNeverRaises ==
    (binding.bound /\ lastCheck.called) =>
        /\ ~lastCheck.raised
        /\ (lastCheck.variant # "mask" /\ FirstMissing(binding, DatasetOf(cur)) # "") =>
               lastCheck.err = "No variable " \o FirstMissing(binding, DatasetOf(cur))

\* C6: when the SingleBand, the RGB and the Mask layer, bound to the same
\* names, have each had check succeed on the dataset and have each been
\* built from it, get_data gave the three of them the same grid.
C6_VariantsPixelAligned ==
    (/\ {"single", "rgb", "mask"} \subseteq checked
     /\ \A v \in {"single", "rgb", "mask"} : out[v].built) =>
        \A v, w \in {"single", "rgb", "mask"} : out[v] = out[w]

\* C8: right after a successful check(ds) on a layer that validates the
\* coordinates, flip_horizontal is true exactly when the first X value of
\* ds exceeds the last, and flip_vertical is true exactly when the first Y
\* value of ds is less than the last.
C8_FlagsDescribeDataset ==
    (/\ lastCheck.called /\ ~lastCheck.raised /\ lastCheck.err = ""
     /\ lastCheck.variant # "mask") =>
        /\ flags[lastCheck.variant].fliplr
              = (CurX.data[<<1>>] > CurX.data[<<CurX.shape[1]>>])
        /\ flags[lastCheck.variant].flipud
              = (CurY.data[<<1>>] < CurY.data[<<CurY.shape[1]>>])

\* C9 as stated: a check that returns an error string leaves both flags as
\* they were before the call, for every variant and every cause.
C9_FailedCheckKeepsFlags ==
    (lastCheck.called /\ ~lastCheck.raised /\ lastCheck.err # "") =>
        flags[lastCheck.variant] = lastCheck.before

\* C9, amended: a check that returns an error string for a missing or a
\* non-1-dimensional coordinate (any variant), or for a missing band on a
\* Mask layer, leaves both flags as they were; a SingleBand or RGB check
\* that fails on a missing band has run the coordinate check first and may
\* have switched a flag from false to true, never from true to false.
C9_FailedCheckKeepsFlagsAmended ==
    (lastCheck.called /\ ~lastCheck.raised /\ lastCheck.err # "") =>
        /\ (lastCheck.variant = "mask" \/ lastCheck.err # "No variable sst") =>
               flags[lastCheck.variant] = lastCheck.before
        /\ lastCheck.before.flipud => flags[lastCheck.variant].flipud
        /\ lastCheck.before.fliplr => flags[lastCheck.variant].fliplr

\* a failed coordinate check on a layer whose flag an earlier check had set
C9_Witness ==
    /\ lastCheck.called /\ ~lastCheck.raised
    /\ lastCheck.err = "x_coordinate must be 1-dimensional"
    /\ lastCheck.before.flipud
    /\ flags[lastCheck.variant] = lastCheck.before


(***************************************************************************)
(* Extraction                                                              *)
(***************************************************************************)

\* get_data has run on a variable whose dimensions, after the selectors,
\* are the bound X and Y dimensions plus dimensions of size 1, and X and Y
\* hold minLen values or more
ExtractCase(minLen) ==
    LET da0 == DatasetOf(xin)["sst"]
    IN  /\ xout.built
        /\ ~IselRaises(da0, xflags.selectors)
        /\ LET da == isel(da0, xflags.selectors)
           IN  /\ {binding.x, binding.y} \subseteq Range(da.dims)
               /\ \A i \in 1..Len(da.dims) :
                     da.dims[i] \notin {binding.x, binding.y} => da.shape[i] = 1
        /\ DatasetOf(xin)[binding.x].shape[1] >= minLen
        /\ DatasetOf(xin)[binding.y].shape[1] >= minLen

\* the grid has one row per Y value and one column per X value
RowsYColsX ==
    /\ ~xout.raised
    /\ Len(xout.grid) = DatasetOf(xin)[binding.y].shape[1]
    /\ \A i \in 1..Len(xout.grid) :
          Len(xout.grid[i]) = DatasetOf(xin)[binding.x].shape[1]

\* C5 as stated: for X and Y coordinates of 1 value or more, get_data
\* returns a grid of (Y length) rows by (X length) columns.
C5_GridIsYByX == ExtractCase(1) => RowsYColsX

\* C5, amended: for X and Y coordinates of 2 values or more, get_data
\* returns a grid of (Y length) rows by (X length) columns, whichever order
\* the variable stores its dimensions in; a coordinate of 1 value is
\* squeezed away with the other size-1 dimensions and get_data raises.
C5_GridIsYByXAmended ==
    /\ ExtractCase(2) => RowsYColsX
    /\ (ExtractCase(1) /\ ~ExtractCase(2)) => xout.raised

\* a variable stored (X, Y) behind a selected time dimension, 2 by 3, with
\* both flips on
C5_Witness ==
    /\ ExtractCase(2) /\ RowsYColsX
    /\ xin.order = "xy" /\ xin.extra = "time" /\ xin.nx = 2 /\ xin.ny = 3
    /\ xflags.flipud /\ xflags.fliplr
    /\ xout.grid[1][1] = <<xflags.selectors["time"], 2, 3>>


====
